---- MODULE Spec2Model ----
(***************************************************************************)
(* State machine of FishBitePredictionApp (src/src/App.jsx).               *)
(*                                                                         *)
(* The component state is the five useState cells plus formData.  Every    *)
(* handler, and every continuation that runs when an awaited request or a  *)
(* geolocation callback returns, is one atomic action: JavaScript runs a   *)
(* handler to completion, and React re-renders after it.  The requests     *)
(* that are in flight are counted per kind.                                *)
(*                                                                         *)
(* JavaScript values are modelled by what the code does with them:         *)
(*   - a number is an integer count of tenths (20 degrees is 200, a wind   *)
(*     of 4.9 m/s is 49), so Math.round and the strict comparisons of the  *)
(*     scorer have fractional inputs to act on;                            *)
(*   - the result of a numeric conversion is a record [nan, v], because    *)
(*     parseInt and the string-to-number coercion can yield NaN, and every *)
(*     comparison with NaN is false;                                       *)
(*   - a string that the code parses or searches is a sequence of          *)
(*     one-character strings;                                              *)
(*   - null is the empty sequence None and a present value x is Some(x).   *)
(*                                                                         *)
(* The guards of the handlers are the early returns of the code.  The      *)
(* buttons 'Get Weather' and 'Geolocate' are clicked only while the last   *)
(* render left them enabled (disabled={loading}, disabled={geoLoading}).   *)
(* predictFishBite tests by itself the condition that disables its button  *)
(* (!weatherData) and is modelled with that test, so that the path on      *)
(* which it refuses to run is part of the model.                           *)
(***************************************************************************)
EXTENDS Integers, Sequences, FiniteSets, TLC

VARIABLES
    formData,      \* useState, lines 27-32
    weatherData,   \* useState, line 34: None or Some(observation)
    prediction,    \* useState, line 35: None or Some(score)
    loading,       \* useState, line 36
    error,         \* useState, line 37: None or Some(message)
    geoLoading,    \* useState, line 38
    nameReqs,      \* axios.get by place name awaited at line 115, unanswered
    coordReqs,     \* axios.get by coordinates awaited at line 53, unanswered
    geoReqs,       \* getCurrentPosition calls of line 81, unanswered
    geoSupported,  \* whether navigator.geolocation exists (line 73)
    view,          \* what the last render shows (lines 194-296)
    op             \* the handler or continuation that ran last, and its path

vars == <<formData, weatherData, prediction, loading, error, geoLoading,
          nameReqs, coordReqs, geoReqs, geoSupported, view, op>>

-----------------------------------------------------------------------------
(* JavaScript values *)

None == <<>>

Some(x) == <<x>>

\* A JavaScript number n (an integer) in tenths.
Tenths(n) == n * 10

\* The result of a numeric conversion: NaN, or a number of tenths.
NaN == [nan |-> TRUE, v |-> 0]

Num(t) == [nan |-> FALSE, v |-> t]

\* A formData.waterTemperature value: the number the code stores, or the
\* string an <input> hands to handleInputChange.
JSNumber(t) == [type |-> "number", num |-> t, str |-> <<>>]

JSString(s) == [type |-> "string", num |-> 0, str |-> s]

Digits == <<"0", "1", "2", "3", "4", "5", "6", "7", "8", "9">>

IsDigit(c) == \E i \in 1..10 : Digits[i] = c

DigitVal(c) == (CHOOSE i \in 1..10 : Digits[i] = c) - 1

IsDigits(s) == \A i \in 1..Len(s) : IsDigit(s[i])

RECURSIVE DigitsVal(_)
DigitsVal(s) ==
    IF s = <<>> THEN 0
    ELSE DigitsVal(SubSeq(s, 1, Len(s) - 1)) * 10 + DigitVal(s[Len(s)])

\* The index of the first occurrence of character c in s, or 0.
IndexOf(s, c) ==
    IF \E i \in 1..Len(s) : s[i] = c
    THEN CHOOSE i \in 1..Len(s) : s[i] = c /\ \A j \in 1..(i - 1) : s[j] # c
    ELSE 0

\* String.prototype.split(sep)[0]: the text before the first separator.
SplitFirst(s, sep) ==
    IF IndexOf(s, sep) = 0 THEN s ELSE SubSeq(s, 1, IndexOf(s, sep) - 1)

\* The longest prefix of s that consists of digits.
DigitPrefix(s) ==
    LET n == CHOOSE k \in 0..Len(s) :
                 /\ IsDigits(SubSeq(s, 1, k))
                 /\ (k < Len(s) => ~IsDigit(s[k + 1]))
    IN  SubSeq(s, 1, n)

\* parseInt(s): an optional sign, then the leading digits; NaN without any.
parseInt(s) ==
    LET neg  == s # <<>> /\ s[1] = "-"
        rest == IF s # <<>> /\ s[1] \in {"-", "+"} THEN Tail(s) ELSE s
        ds   == DigitPrefix(rest)
    IN  IF ds = <<>> THEN NaN
        ELSE Num(Tenths(IF neg THEN 0 - DigitsVal(ds) ELSE DigitsVal(ds)))

\* The coercion of a string operand of >= and <= (ToNumber): "" is 0, a
\* decimal literal is its value, anything else is NaN.  Literals carry at
\* most one fractional digit, the precision of the model's numbers.
StringToNumber(s) ==
    LET neg  == s # <<>> /\ s[1] = "-"
        body == IF neg THEN Tail(s) ELSE s
        dot  == IndexOf(body, ".")
        ip   == IF dot = 0 THEN body ELSE SubSeq(body, 1, dot - 1)
        fp   == IF dot = 0 THEN <<>> ELSE SubSeq(body, dot + 1, Len(body))
        mag  == DigitsVal(ip) * 10 + DigitsVal(fp)
    IN  IF s = <<>> THEN Num(0)
        ELSE IF ip \o fp # <<>> /\ IsDigits(ip) /\ IsDigits(fp) /\ Len(fp) <= 1
             THEN Num(IF neg THEN 0 - mag ELSE mag)
             ELSE NaN

\* ToNumber of a formData.waterTemperature value.
ToNumber(x) == IF x.type = "number" THEN Num(x.num) ELSE StringToNumber(x.str)

\* x >= n and x <= n, x < n and x > n for a converted x and an integer
\* literal n: false when x is NaN.
GE(x, n) == ~x.nan /\ x.v >= Tenths(n)

LE(x, n) == ~x.nan /\ x.v <= Tenths(n)

LT(x, n) == ~x.nan /\ x.v < Tenths(n)

GT(x, n) == ~x.nan /\ x.v > Tenths(n)

\* Math.floor in the place of Math.round.
MathRound_floor(t) == Tenths(t \div 10)

\* Math.round of a number of tenths: the nearest integer, halves upwards.
MathRound(t) == Tenths((t + 5) \div 10)

UpperCase == <<"A", "B", "C", "D", "E", "F", "G", "H", "I", "J", "K", "L", "M",
               "N", "O", "P", "Q", "R", "S", "T", "U", "V", "W", "X", "Y", "Z">>

LowerCase == <<"a", "b", "c", "d", "e", "f", "g", "h", "i", "j", "k", "l", "m",
               "n", "o", "p", "q", "r", "s", "t", "u", "v", "w", "x", "y", "z">>

\* String.prototype.toLowerCase.
toLowerCase(s) ==
    [i \in 1..Len(s) |->
        IF \E k \in 1..26 : UpperCase[k] = s[i]
        THEN LowerCase[CHOOSE k \in 1..26 : UpperCase[k] = s[i]]
        ELSE s[i]]

\* String.prototype.includes.
includes(s, sub) ==
    \E i \in 0..(Len(s) - Len(sub)) : SubSeq(s, i + 1, i + Len(sub)) = sub

-----------------------------------------------------------------------------
(* Program constants *)

\* let score = 50 // Base probability
BaseScore == 50

\* The codes of GeolocationPositionError that the switch of line 88 names.
PERMISSION_DENIED == 1

POSITION_UNAVAILABLE == 2

TIMEOUT == 3

\* useState(...) of lines 27-32: '08:00' as characters.
InitialTimeOfDay == <<"0", "8", ":", "0", "0">>

InitialFormData ==
    [location         |-> "",
     waterTemperature |-> JSNumber(Tenths(20)),
     timeOfDay        |-> InitialTimeOfDay,
     moonPhase        |-> "full"]

\* The substrings the weather switch looks for.
ClearText == <<"c", "l", "e", "a", "r">>

CloudsText == <<"c", "l", "o", "u", "d", "s">>

RainText == <<"r", "a", "i", "n">>

-----------------------------------------------------------------------------
(* The component state as one value, so that a handler is a function from  *)
(* state to state.                                                         *)

S ==
    [formData    |-> formData,
     weatherData |-> weatherData,
     prediction  |-> prediction,
     loading     |-> loading,
     error       |-> error,
     geoLoading  |-> geoLoading,
     nameReqs    |-> nameReqs,
     coordReqs   |-> coordReqs,
     geoReqs     |-> geoReqs]

InitialState ==
    [formData    |-> InitialFormData,
     weatherData |-> None,
     prediction  |-> None,
     loading     |-> FALSE,
     error       |-> None,
     geoLoading  |-> FALSE,
     nameReqs    |-> 0,
     coordReqs   |-> 0,
     geoReqs     |-> 0]

-----------------------------------------------------------------------------
(* The view: lines 194-296 *)

\* The tiers with the upper threshold read as inclusive for excellent.
ShownTiers_inclusive(p) ==
    (IF p >= 70 THEN {"excellent"} ELSE {})
        \cup (IF p > 40 /\ p <= 70 THEN {"moderate"} ELSE {})
        \cup (IF p <= 40 THEN {"poor"} ELSE {})

\* The paragraphs of lines 284-286, named by the tier each one announces.
\* Three independent conditions, as in the JSX.
ShownTiers(p) ==
    (IF p > 70 THEN {"excellent"} ELSE {})
        \cup (IF p > 40 /\ p <= 70 THEN {"moderate"} ELSE {})
        \cup (IF p <= 40 THEN {"poor"} ELSE {})

Render(s) ==
    [getWeatherDisabled |-> s.loading,
     geolocateDisabled  |-> s.geoLoading,
     predictDisabled    |-> s.weatherData = None,
     resultShown        |-> s.prediction # None,
     tiers              |-> IF s.prediction # None
                            THEN ShownTiers(s.prediction[1])
                            ELSE {}]

-----------------------------------------------------------------------------
(* The scorer: predictFishBite, lines 132-175 *)

\* The water temperature band with both ends excluded.
TemperatureAdjustment_exclusive(waterTemperature) ==
    IF GT(ToNumber(waterTemperature), 18) /\ LT(ToNumber(waterTemperature), 24)
    THEN 20 ELSE 0

\* Water temperature impact.
TemperatureAdjustment(waterTemperature) ==
    IF GE(ToNumber(waterTemperature), 18) /\ LE(ToNumber(waterTemperature), 24)
    THEN 20 ELSE 0

\* The time of day compared as hours and minutes: 10:59 is later than 10
\* and 19:59 later than 19.
TimeAdjustment_withMinutes(timeOfDay) ==
    LET hour    == parseInt(SplitFirst(timeOfDay, ":"))
        colon   == IndexOf(timeOfDay, ":")
        minute  == IF colon = 0 THEN NaN
                   ELSE parseInt(SubSeq(timeOfDay, colon + 1, Len(timeOfDay)))
        onHour  == minute.nan \/ minute.v = 0
        AtMost(n) == LT(hour, n) \/ (LE(hour, n) /\ onHour)
    IN  (IF GE(hour, 6) /\ AtMost(10) THEN 15 ELSE 0)
            + (IF GE(hour, 16) /\ AtMost(19) THEN 15 ELSE 0)

\* Time of day impact: two independent if statements.
TimeAdjustment(timeOfDay) ==
    LET hour == parseInt(SplitFirst(timeOfDay, ":"))
    IN  (IF GE(hour, 6) /\ LE(hour, 10) THEN 15 ELSE 0)
            + (IF GE(hour, 16) /\ LE(hour, 19) THEN 15 ELSE 0)

\* The weather switch without its break statements: a matching case falls
\* through the cases below it.
WeatherAdjustment_fallthrough(weather) ==
    LET mainWeather == toLowerCase(weather[1].main)
    IN  IF includes(mainWeather, ClearText) THEN 10 + 5 - 10
        ELSE IF includes(mainWeather, CloudsText) THEN 5 - 10
        ELSE IF includes(mainWeather, RainText) THEN 0 - 10
        ELSE 0

\* Weather impact: switch(true), the first matching case wins.
WeatherAdjustment(weather) ==
    LET mainWeather == toLowerCase(weather[1].main)
    IN  IF includes(mainWeather, ClearText) THEN 10
        ELSE IF includes(mainWeather, CloudsText) THEN 5
        ELSE IF includes(mainWeather, RainText) THEN 0 - 10
        ELSE 0

\* The wind thresholds read as inclusive.
WindAdjustment_inclusive(wind) ==
    IF LE(Num(wind.speed), 5) THEN 10
    ELSE IF GE(Num(wind.speed), 10) THEN 0 - 10
    ELSE 0

\* Wind impact.
WindAdjustment(wind) ==
    IF LT(Num(wind.speed), 5) THEN 10
    ELSE IF GT(Num(wind.speed), 10) THEN 0 - 10
    ELSE 0

\* Moon phase impact: switch with strict equality.
MoonAdjustment(moonPhase) ==
    IF moonPhase = "full" THEN 10
    ELSE IF moonPhase = "new" THEN 0 - 5
    ELSE 0

Max(a, b) == IF a >= b THEN a ELSE b

Min(a, b) == IF a <= b THEN a ELSE b

\* The clamp without its upper bound.
Clamp_noUpperBound(score) == Max(0, score)

\* score = Math.max(0, Math.min(100, score))
Clamp(score) == Max(0, Min(100, score))

\* The running total without the moon phase.
RunningTotal_noMoon(fd, wd) ==
    BaseScore
        + TemperatureAdjustment(fd.waterTemperature)
        + TimeAdjustment(fd.timeOfDay)
        + WeatherAdjustment(wd.weather)
        + WindAdjustment(wd.wind)

\* The running total of lines 141-169.
RunningTotal(fd, wd) ==
    BaseScore
        + TemperatureAdjustment(fd.waterTemperature)
        + TimeAdjustment(fd.timeOfDay)
        + WeatherAdjustment(wd.weather)
        + WindAdjustment(wd.wind)
        + MoonAdjustment(fd.moonPhase)

\* predictFishBite starting from the score it stored last instead of from
\* the base score.
predictFishBite_accumulates(s) ==
    IF s.weatherData = None
    THEN [s EXCEPT !.error = Some("Please fetch weather data first")]
    ELSE [s EXCEPT
             !.prediction =
                 Some(Clamp(RunningTotal(s.formData, s.weatherData[1]) - BaseScore
                                + (IF s.prediction = None THEN BaseScore
                                   ELSE s.prediction[1])))]

\* predictFishBite scoring the form alone when no observation is present.
predictFishBite_scoresWithoutObservation(s) ==
    IF s.weatherData = None
    THEN [s EXCEPT !.prediction = Some(BaseScore)]
    ELSE [s EXCEPT
             !.prediction = Some(Clamp(RunningTotal(s.formData, s.weatherData[1])))]

\* predictFishBite dropping the earlier prediction when it refuses to run.
predictFishBite_clearsPrediction(s) ==
    IF s.weatherData = None
    THEN [s EXCEPT !.error = Some("Please fetch weather data first"),
                   !.prediction = None]
    ELSE [s EXCEPT
             !.prediction = Some(Clamp(RunningTotal(s.formData, s.weatherData[1])))]

predictFishBite(s) ==
    IF s.weatherData = None
    THEN [s EXCEPT !.error = Some("Please fetch weather data first")]
    ELSE [s EXCEPT
             !.prediction = Some(Clamp(RunningTotal(s.formData, s.weatherData[1])))]

-----------------------------------------------------------------------------
(* The resolver: lines 40-130 *)

\* setFormData(prev => ({...prev, [name]: value}))
handleInputChange(s, name, value) ==
    [s EXCEPT !.formData = [@ EXCEPT ![name] = value]]

\* fetchWeatherData without the test of the location.
fetchWeatherData_noGuard(s) ==
    [s EXCEPT !.loading = TRUE, !.error = None, !.nameReqs = @ + 1]

\* fetchWeatherData up to its await (lines 105-117).
fetchWeatherData(s) ==
    IF s.formData.location = ""
    THEN [s EXCEPT !.error = Some("Please enter a location")]
    ELSE [s EXCEPT !.loading = TRUE, !.error = None, !.nameReqs = @ + 1]

\* fetchWeatherData withdrawing the prediction together with the
\* observation when it fails.
fetchWeatherDataResponse_clearsPrediction(s, response) ==
    IF response.ok
    THEN [s EXCEPT
             !.weatherData = Some(response.data[1]),
             !.formData = [@ EXCEPT !.waterTemperature =
                               JSNumber(MathRound(response.data[1].main.temp))],
             !.loading = FALSE,
             !.nameReqs = @ - 1]
    ELSE [s EXCEPT
             !.error = Some("Could not fetch weather data. Please check the location."),
             !.weatherData = None,
             !.prediction = None,
             !.loading = FALSE,
             !.nameReqs = @ - 1]

\* fetchWeatherData with setLoading(false) at the end of the try block
\* instead of in a finally block.
fetchWeatherDataResponse_noFinally(s, response) ==
    IF response.ok
    THEN [s EXCEPT
             !.weatherData = Some(response.data[1]),
             !.formData = [@ EXCEPT !.waterTemperature =
                               JSNumber(MathRound(response.data[1].main.temp))],
             !.loading = FALSE,
             !.nameReqs = @ - 1]
    ELSE [s EXCEPT
             !.error = Some("Could not fetch weather data. Please check the location."),
             !.weatherData = None,
             !.nameReqs = @ - 1]

\* fetchWeatherData from its await on (lines 115-129).  A response is
\* [ok, data]: the resolved promise with its body, or a rejection.
fetchWeatherDataResponse(s, response) ==
    IF response.ok
    THEN [s EXCEPT
             !.weatherData = Some(response.data[1]),
             !.formData = [@ EXCEPT !.waterTemperature =
                               JSNumber(MathRound(response.data[1].main.temp))],
             !.loading = FALSE,
             !.nameReqs = @ - 1]
    ELSE [s EXCEPT
             !.error = Some("Could not fetch weather data. Please check the location."),
             !.weatherData = None,
             !.loading = FALSE,
             !.nameReqs = @ - 1]

\* fetchWeatherByCoords up to its await (lines 48-55).
fetchWeatherByCoords(s) ==
    [s EXCEPT !.loading = TRUE, !.error = None, !.coordReqs = @ + 1]

\* fetchWeatherByCoords with setGeoLoading(false) at the end of the try
\* block instead of in the finally block.
fetchWeatherByCoordsResponse_keepsGeoLoading(s, response) ==
    IF response.ok
    THEN [s EXCEPT
             !.weatherData = Some(response.data[1]),
             !.formData = [@ EXCEPT
                               !.location = response.data[1].name,
                               !.waterTemperature =
                                   JSNumber(MathRound(response.data[1].main.temp))],
             !.loading = FALSE,
             !.geoLoading = FALSE,
             !.coordReqs = @ - 1]
    ELSE [s EXCEPT
             !.error = Some("Could not fetch weather data for your location."),
             !.weatherData = None,
             !.loading = FALSE,
             !.coordReqs = @ - 1]

\* fetchWeatherByCoords keeping the earlier observation when it fails.
fetchWeatherByCoordsResponse_keepsObservation(s, response) ==
    IF response.ok
    THEN [s EXCEPT
             !.weatherData = Some(response.data[1]),
             !.formData = [@ EXCEPT
                               !.location = response.data[1].name,
                               !.waterTemperature =
                                   JSNumber(MathRound(response.data[1].main.temp))],
             !.loading = FALSE,
             !.geoLoading = FALSE,
             !.coordReqs = @ - 1]
    ELSE [s EXCEPT
             !.error = Some("Could not fetch weather data for your location."),
             !.loading = FALSE,
             !.geoLoading = FALSE,
             !.coordReqs = @ - 1]

\* fetchWeatherByCoords from its await on (lines 53-69).
fetchWeatherByCoordsResponse(s, response) ==
    IF response.ok
    THEN [s EXCEPT
             !.weatherData = Some(response.data[1]),
             !.formData = [@ EXCEPT
                               !.location = response.data[1].name,
                               !.waterTemperature =
                                   JSNumber(MathRound(response.data[1].main.temp))],
             !.loading = FALSE,
             !.geoLoading = FALSE,
             !.coordReqs = @ - 1]
    ELSE [s EXCEPT
             !.error = Some("Could not fetch weather data for your location."),
             !.weatherData = None,
             !.loading = FALSE,
             !.geoLoading = FALSE,
             !.coordReqs = @ - 1]

\* handleGeolocate up to the call of getCurrentPosition (lines 72-81).
handleGeolocate(s, supported) ==
    IF ~supported
    THEN [s EXCEPT !.error = Some("Geolocation is not supported by your browser")]
    ELSE [s EXCEPT !.geoLoading = TRUE, !.error = None, !.geoReqs = @ + 1]

\* The success callback of getCurrentPosition (lines 82-85).
geolocateSuccess(s) ==
    fetchWeatherByCoords([s EXCEPT !.geoReqs = @ - 1])

\* The switch without its TIMEOUT case.
GeolocationErrorMessage_noTimeout(code) ==
    IF code = PERMISSION_DENIED THEN "User denied the request for Geolocation."
    ELSE IF code = POSITION_UNAVAILABLE THEN "Location information is unavailable."
    ELSE "An unknown error occurred."

\* The message of the switch of lines 88-100.
GeolocationErrorMessage(code) ==
    IF code = PERMISSION_DENIED THEN "User denied the request for Geolocation."
    ELSE IF code = POSITION_UNAVAILABLE THEN "Location information is unavailable."
    ELSE IF code = TIMEOUT THEN "The request to get user location timed out."
    ELSE "An unknown error occurred."

\* The error callback of getCurrentPosition (lines 86-101).
geolocateError(s, code) ==
    [s EXCEPT
        !.geoLoading = FALSE,
        !.error = Some(GeolocationErrorMessage(code)),
        !.geoReqs = @ - 1]

-----------------------------------------------------------------------------
(* Inputs *)

\* How many requests (weather and geolocation together) may be unanswered
\* at once.
MaxOutstanding == 2

Observation(name, temp, category, speed) ==
    [name    |-> name,
     main    |-> [temp |-> temp],
     weather |-> <<[main |-> category]>>,
     wind    |-> [speed |-> speed]]

\* The bodies the weather provider answers with: Oslo, 17.6 degrees, "Clear",
\* 3 m/s; Lima, 9.4 degrees, "Rain", 12 m/s.
Observations ==
    {Observation("Oslo", 176, <<"C", "l", "e", "a", "r">>, 30),
     Observation("Lima", 94, <<"R", "a", "i", "n">>, 120)}

\* What an awaited axios.get settles to.
Success(data) == [ok |-> TRUE, data |-> Some(data)]

Failure == [ok |-> FALSE, data |-> None]

Responses == {Success(o) : o \in Observations} \cup {Failure}

\* error.code of a GeolocationPositionError; 0 stands for any other code.
GeolocationErrorCodes == {PERMISSION_DENIED, POSITION_UNAVAILABLE, TIMEOUT, 0}

FieldNames == {"location", "waterTemperature", "timeOfDay", "moonPhase"}

\* e.target.value of the four inputs: always a string.
InputValues(name) ==
    IF name = "location" THEN {"", "Oslo"}
    ELSE IF name = "waterTemperature" THEN {JSString(<<"2", "5">>)}
    ELSE IF name = "timeOfDay" THEN {<<"1", "3", ":", "0", "0">>}
    ELSE {"new"}

Outstanding == nameReqs + coordReqs + geoReqs

-----------------------------------------------------------------------------
(* Actions *)

Op(name, path, code) == [name |-> name, path |-> path, code |-> code]

\* The state a handler leaves, followed by the re-render.
Commit(n, o) ==
    /\ formData' = n.formData
    /\ weatherData' = n.weatherData
    /\ prediction' = n.prediction
    /\ loading' = n.loading
    /\ error' = n.error
    /\ geoLoading' = n.geoLoading
    /\ nameReqs' = n.nameReqs
    /\ coordReqs' = n.coordReqs
    /\ geoReqs' = n.geoReqs
    /\ view' = Render(n)
    /\ op' = o
    /\ UNCHANGED geoSupported

Init ==
    /\ formData = InitialState.formData
    /\ weatherData = InitialState.weatherData
    /\ prediction = InitialState.prediction
    /\ loading = InitialState.loading
    /\ error = InitialState.error
    /\ geoLoading = InitialState.geoLoading
    /\ nameReqs = 0
    /\ coordReqs = 0
    /\ geoReqs = 0
    /\ geoSupported \in BOOLEAN
    /\ view = Render(InitialState)
    /\ op = Op("init", "", 0)

HandleInputChange ==
    \E name \in FieldNames : \E value \in InputValues(name) :
        Commit(handleInputChange(S, name, value), Op("handleInputChange", name, 0))

FetchWeatherData ==
    /\ ~view.getWeatherDisabled
    /\ formData.location # "" => Outstanding < MaxOutstanding
    /\ Commit(fetchWeatherData(S),
              Op("fetchWeatherData",
                 IF formData.location = "" THEN "InvalidInput" ELSE "request", 0))

FetchWeatherDataResponse ==
    /\ nameReqs > 0
    /\ \E response \in Responses :
           Commit(fetchWeatherDataResponse(S, response),
                  Op("fetchWeatherData.response",
                     IF response.ok THEN "success" ELSE "catch", 0))

HandleGeolocate ==
    /\ ~view.geolocateDisabled
    /\ geoSupported => Outstanding < MaxOutstanding
    /\ Commit(handleGeolocate(S, geoSupported),
              Op("handleGeolocate",
                 IF geoSupported THEN "request" ELSE "unsupported", 0))

GeolocateSuccess ==
    /\ geoReqs > 0
    /\ Commit(geolocateSuccess(S), Op("handleGeolocate.success", "request", 0))

GeolocateError ==
    /\ geoReqs > 0
    /\ \E code \in GeolocationErrorCodes :
           Commit(geolocateError(S, code), Op("handleGeolocate.error", "error", code))

FetchWeatherByCoordsResponse ==
    /\ coordReqs > 0
    /\ \E response \in Responses :
           Commit(fetchWeatherByCoordsResponse(S, response),
                  Op("fetchWeatherByCoords.response",
                     IF response.ok THEN "success" ELSE "catch", 0))

PredictFishBite ==
    Commit(predictFishBite(S),
           Op("predictFishBite",
              IF weatherData = None THEN "MissingObservation" ELSE "scored", 0))

Next ==
    \/ HandleInputChange
    \/ FetchWeatherData
    \/ FetchWeatherDataResponse
    \/ HandleGeolocate
    \/ GeolocateSuccess
    \/ GeolocateError
    \/ FetchWeatherByCoordsResponse
    \/ PredictFishBite

Spec == Init /\ [][Next]_vars

\* The component under the assumption that every request that was issued is
\* answered: an awaited axios.get settles, and getCurrentPosition calls one
\* of its two callbacks.
Fairness ==
    /\ WF_vars(FetchWeatherDataResponse)
    /\ WF_vars(FetchWeatherByCoordsResponse)
    /\ WF_vars(GeolocateSuccess \/ GeolocateError)

\* The busy flags are written by the fetch and geolocation handlers only,
\* and the one form field these read is the location: the behaviours in
\* which the user edits no other field.
HandleLocationChange ==
    \E value \in InputValues("location") :
        Commit(handleInputChange(S, "location", value),
               Op("handleInputChange", "location", 0))

NextLive ==
    \/ HandleLocationChange
    \/ FetchWeatherData
    \/ FetchWeatherDataResponse
    \/ HandleGeolocate
    \/ GeolocateSuccess
    \/ GeolocateError
    \/ FetchWeatherByCoordsResponse
    \/ PredictFishBite

SpecLive == Init /\ [][NextLive]_vars /\ Fairness

-----------------------------------------------------------------------------
(* The scorer on its own: every input of a wider domain, then one call of  *)
(* predictFishBite.                                                        *)

\* The value an <input type="time"> yields for hour h and minute m.
TimeString(h, m) ==
    <<Digits[(h \div 10) + 1], Digits[(h % 10) + 1], ":",
      Digits[(m \div 10) + 1], Digits[(m % 10) + 1]>>

\* Every hour of the day, the last minute of the two favourable ranges, and
\* the empty value of a cleared time input.
ScorerTimes ==
    {TimeString(h, 0) : h \in 0..23}
        \cup {TimeString(10, 59), TimeString(19, 59), <<>>}

\* Numbers as fetchWeatherData stores them (Math.round of a temperature)
\* and strings as the number input yields them.
ScorerWaterTemperatures ==
    {JSNumber(Tenths(n)) : n \in {0 - 3, 10, 17, 18, 20, 24, 25}}
        \cup {JSString(s) : s \in {<<>>,
                                    <<"1", "0">>,
                                    <<"1", "7", ".", "9">>,
                                    <<"1", "8">>,
                                    <<"2", "4">>,
                                    <<"2", "4", ".", "5">>}}

ScorerMoonPhases == {"full", "half", "new"}

ScorerFormData ==
    {[location |-> "Oslo", waterTemperature |-> w, timeOfDay |-> t, moonPhase |-> m] :
        w \in ScorerWaterTemperatures, t \in ScorerTimes, m \in ScorerMoonPhases}

\* Categories of the provider, and free text that matches several cases or
\* none.
ScorerCategories ==
    {<<"C", "l", "e", "a", "r">>,
     <<"C", "l", "o", "u", "d", "s">>,
     <<"R", "a", "i", "n">>,
     <<"M", "i", "s", "t">>,
     <<"R", "A", "I", "N">>,
     <<"r", "a", "i", "n", " ", "c", "l", "o", "u", "d", "s">>,
     <<"C", "l", "o", "u", "d", "s", " ", "c", "l", "e", "a", "r">>,
     <<"R", "a", "i", "n", " ", "C", "L", "E", "A", "R">>,
     <<"C", "l", "o", "u", "d">>}

\* Wind speeds in tenths of m/s, around both thresholds.
ScorerWindSpeeds == {0, 30, 49, 50, 51, 70, 100, 101, 120}

ScorerObservations ==
    {Observation("Oslo", 176, c, w) : c \in ScorerCategories, w \in ScorerWindSpeeds}

InitScorer ==
    /\ formData \in ScorerFormData
    /\ weatherData \in {None} \cup {Some(o) : o \in ScorerObservations}
    /\ prediction = None
    /\ loading = FALSE
    /\ error = None
    /\ geoLoading = FALSE
    /\ nameReqs = 0
    /\ coordReqs = 0
    /\ geoReqs = 0
    /\ geoSupported = TRUE
    /\ view = Render([InitialState EXCEPT !.formData = formData,
                                          !.weatherData = weatherData])
    /\ op = Op("init", "", 0)

NextScorer == PredictFishBite

SpecScorer == InitScorer /\ [][NextScorer]_vars

-----------------------------------------------------------------------------
(* The tier paragraphs on their own: setPrediction with every score the    *)
(* clamp can yield, and the render that follows.                           *)

ScoreRange == 0..100

SetPrediction(p) ==
    Commit([S EXCEPT !.prediction = Some(p)], Op("setPrediction", "", p))

NextTier == \E p \in ScoreRange : SetPrediction(p)

SpecTier == Init /\ [][NextTier]_vars

-----------------------------------------------------------------------------
(* Claims *)

\* C1: the exposed prediction is null or an integer in [0,100]; when
\* predictFishBite ran with an observation present, it is the running total
\* of the adjustments, raised to 0 when below and lowered to 100 when above.
C1_PredictionClamped ==
    /\ prediction = None \/ prediction[1] \in 0..100
    /\ (op.name = "predictFishBite" /\ weatherData # None) =>
           LET total == RunningTotal(formData, weatherData[1])
           IN  /\ prediction # None
               /\ total < 0 => prediction[1] = 0
               /\ total > 100 => prediction[1] = 100
               /\ total \in 0..100 => prediction[1] = total

\* predictFishBite has stored 100 for a running total above 100.
C1_Witness ==
    /\ op.name = "predictFishBite"
    /\ weatherData # None
    /\ RunningTotal(formData, weatherData[1]) > 100
    /\ prediction = Some(100)

\* The rule table of the scorer, read off the numeric value of the water
\* temperature, the hour, the lower-cased category, the wind speed in tenths
\* and the moon phase.
C2_ExpectedTotal ==
    LET t        == ToNumber(formData.waterTemperature)
        h        == parseInt(SplitFirst(formData.timeOfDay, ":"))
        category == toLowerCase(weatherData[1].weather[1].main)
        speed    == weatherData[1].wind.speed
        moon     == formData.moonPhase
    IN  50
            + (IF ~t.nan /\ t.v \in 180..240 THEN 20 ELSE 0)
            + (IF ~h.nan /\ h.v \in {60, 70, 80, 90, 100, 160, 170, 180, 190}
               THEN 15 ELSE 0)
            + (CASE includes(category, ClearText) -> 10
                 [] ~includes(category, ClearText) /\ includes(category, CloudsText) -> 5
                 [] ~includes(category, ClearText) /\ ~includes(category, CloudsText)
                        /\ includes(category, RainText) -> 0 - 10
                 [] OTHER -> 0)
            + (CASE speed < 50 -> 10 [] speed > 100 -> 0 - 10 [] OTHER -> 0)
            + (CASE moon = "full" -> 10 [] moon = "new" -> 0 - 5 [] OTHER -> 0)

\* Scenario A of the specification: 20 degrees, 08:00, full moon, "Clear",
\* wind 3.
C2_ScenarioA ==
    /\ ToNumber(formData.waterTemperature) = Num(200)
    /\ formData.timeOfDay = <<"0", "8", ":", "0", "0">>
    /\ formData.moonPhase = "full"
    /\ weatherData # None
    /\ weatherData[1].weather[1].main = <<"C", "l", "e", "a", "r">>
    /\ weatherData[1].wind.speed = 30

\* Scenario B of the specification: 10 degrees, 13:00, new moon, "Rain",
\* wind 12.
C2_ScenarioB ==
    /\ ToNumber(formData.waterTemperature) = Num(100)
    /\ formData.timeOfDay = <<"1", "3", ":", "0", "0">>
    /\ formData.moonPhase = "new"
    /\ weatherData # None
    /\ weatherData[1].weather[1].main = <<"R", "a", "i", "n">>
    /\ weatherData[1].wind.speed = 120

\* C2: after predictFishBite with an observation present, the prediction is
\* 50 plus the five adjustments of the rule table, clamped into [0,100];
\* scenario A gives 100 and the tier excellent, scenario B gives 25 and the
\* tier poor.
C2_ScoreIsRuleTable ==
    (op.name = "predictFishBite" /\ weatherData # None) =>
        /\ prediction =
               Some(IF C2_ExpectedTotal > 100 THEN 100
                    ELSE IF C2_ExpectedTotal < 0 THEN 0
                    ELSE C2_ExpectedTotal)
        /\ C2_ScenarioA => prediction = Some(100) /\ view.tiers = {"excellent"}
        /\ C2_ScenarioB => prediction = Some(25) /\ view.tiers = {"poor"}

\* predictFishBite has scored scenario B.
C2_Witness ==
    /\ op.name = "predictFishBite"
    /\ C2_ScenarioB
    /\ prediction = Some(25)
    /\ view.tiers = {"poor"}

\* C3: a step of predictFishBite taken while weatherData is null sets the
\* error 'Please fetch weather data first' and leaves prediction,
\* weatherData, formData, loading and geoLoading as they were.
C3_MissingObservation ==
    [][(op'.name = "predictFishBite" /\ weatherData = None) =>
           /\ error' = Some("Please fetch weather data first")
           /\ prediction' = prediction
           /\ weatherData' = weatherData
           /\ formData' = formData
           /\ loading' = loading
           /\ geoLoading' = geoLoading]_vars

\* predictFishBite has refused to run without an observation, while an
\* earlier prediction is still held and a request is in flight.
C3_Witness ==
    /\ op.name = "predictFishBite"
    /\ op.path = "MissingObservation"
    /\ weatherData = None
    /\ error = Some("Please fetch weather data first")
    /\ prediction # None
    /\ loading

\* C4: when no weather request and no geolocation request is outstanding,
\* loading and geoLoading are both false.
C4_BusyFlagsReleased ==
    Outstanding = 0 => ~loading /\ ~geoLoading

\* The last outstanding request, a by-coordinates one started by a
\* geolocation, has failed and both flags are down.
C4_Witness ==
    /\ op.name = "fetchWeatherByCoords.response"
    /\ op.path = "catch"
    /\ Outstanding = 0
    /\ ~loading
    /\ ~geoLoading

\* C5: a step of fetchWeatherData taken with an empty location issues no
\* request, leaves loading as it was, sets the error 'Please enter a
\* location' and leaves weatherData, prediction and formData unchanged.
C5_InvalidInput ==
    [][(op'.name = "fetchWeatherData" /\ formData.location = "") =>
           /\ nameReqs' = nameReqs
           /\ coordReqs' = coordReqs
           /\ geoReqs' = geoReqs
           /\ loading' = loading
           /\ error' = Some("Please enter a location")
           /\ weatherData' = weatherData
           /\ prediction' = prediction
           /\ formData' = formData]_vars

\* fetchWeatherData has rejected an empty location: nothing is in flight
\* and loading is down.
C5_Witness ==
    /\ op.name = "fetchWeatherData"
    /\ op.path = "InvalidInput"
    /\ formData.location = ""
    /\ error = Some("Please enter a location")
    /\ Outstanding = 0
    /\ ~loading

\* C6: whenever two weather requests are outstanding, the state reached
\* after both responses (weatherData, error, formData, loading, geoLoading)
\* is the same whichever of the two responses arrives first.
C6_ResponsesCommute ==
    LET Complete(s, kind, r) ==
            IF kind = "name" THEN fetchWeatherDataResponse(s, r)
            ELSE fetchWeatherByCoordsResponse(s, r)
        Visible(s) ==
            <<s.weatherData, s.error, s.formData, s.loading, s.geoLoading>>
        BothOutstanding(k1, k2) ==
            IF k1 = k2
            THEN (IF k1 = "name" THEN nameReqs ELSE coordReqs) >= 2
            ELSE nameReqs >= 1 /\ coordReqs >= 1
    IN  \A k1, k2 \in {"name", "coords"} : \A r1, r2 \in Responses :
            BothOutstanding(k1, k2) =>
                Visible(Complete(Complete(S, k1, r1), k2, r2))
                    = Visible(Complete(Complete(S, k2, r2), k1, r1))

\* C7: a failed by-name request sets the by-name message and a null
\* weatherData, a failed by-coordinates request sets the by-coordinates
\* message and a null weatherData; the failed request is gone and no other
\* request has been issued.
C7_ProviderError ==
    [][/\ (op'.name = "fetchWeatherData.response" /\ op'.path = "catch") =>
              /\ error' = Some("Could not fetch weather data. Please check the location.")
              /\ weatherData' = None
              /\ nameReqs' = nameReqs - 1
              /\ coordReqs' = coordReqs
              /\ geoReqs' = geoReqs
       /\ (op'.name = "fetchWeatherByCoords.response" /\ op'.path = "catch") =>
              /\ error' = Some("Could not fetch weather data for your location.")
              /\ weatherData' = None
              /\ coordReqs' = coordReqs - 1
              /\ nameReqs' = nameReqs
              /\ geoReqs' = geoReqs]_vars

\* A by-name request has failed after an observation had been delivered
\* and scored.
C7_Witness ==
    /\ op.name = "fetchWeatherData.response"
    /\ op.path = "catch"
    /\ error = Some("Could not fetch weather data. Please check the location.")
    /\ weatherData = None
    /\ prediction # None
    /\ nameReqs = 0

\* C8: a step of the geolocation error callback clears geoLoading, sets the
\* message of its error code, issues no weather request and leaves
\* weatherData, prediction and loading as they were.
C8_GeolocationError ==
    [][op'.name = "handleGeolocate.error" =>
           /\ geoLoading' = FALSE
           /\ error' = Some(CASE op'.code = 1 -> "User denied the request for Geolocation."
                              [] op'.code = 2 -> "Location information is unavailable."
                              [] op'.code = 3 -> "The request to get user location timed out."
                              [] OTHER -> "An unknown error occurred.")
           /\ nameReqs' = nameReqs
           /\ coordReqs' = coordReqs
           /\ weatherData' = weatherData
           /\ prediction' = prediction
           /\ loading' = loading]_vars

\* The geolocation has been denied while a by-name request keeps loading up.
C8_Witness ==
    /\ op.name = "handleGeolocate.error"
    /\ op.code = PERMISSION_DENIED
    /\ error = Some("User denied the request for Geolocation.")
    /\ ~geoLoading
    /\ loading
    /\ nameReqs = 1

\* C9: for every score exactly one tier paragraph is shown: excellent iff
\* the score is above 70, moderate iff it is above 40 and at most 70, poor
\* iff it is at most 40; 70 is moderate, 71 excellent, 40 poor, 41 moderate.
C9_TierTotalExclusive ==
    prediction # None =>
        LET p == prediction[1]
        IN  /\ Cardinality(view.tiers) = 1
            /\ "excellent" \in view.tiers <=> p > 70
            /\ "moderate" \in view.tiers <=> (40 < p /\ p <= 70)
            /\ "poor" \in view.tiers <=> p <= 40
            /\ p = 70 => view.tiers = {"moderate"}
            /\ p = 71 => view.tiers = {"excellent"}
            /\ p = 40 => view.tiers = {"poor"}
            /\ p = 41 => view.tiers = {"moderate"}

\* The score 71 is rendered as excellent only.
C9_Witness ==
    /\ prediction = Some(71)
    /\ view.tiers = {"excellent"}

\* C10 as stated: no step of a resolve operation changes the water
\* temperature, the time of day or the moon phase of formData.
C10_ResolveKeepsPredictionInput ==
    [][op'.name \in {"fetchWeatherData", "fetchWeatherData.response",
                     "handleGeolocate.success", "fetchWeatherByCoords.response"} =>
           /\ formData'.waterTemperature = formData.waterTemperature
           /\ formData'.timeOfDay = formData.timeOfDay
           /\ formData'.moonPhase = formData.moonPhase]_vars

\* C10 as amended: no step of a resolve operation changes the time of day
\* or the moon phase; a start and a failed response leave formData
\* unchanged; a successful response stores the observation's temperature,
\* rounded to the nearest integer (halves upwards), as the water
\* temperature, and a by-coordinates one also stores the resolved name as
\* the location, a by-name one leaving the location unchanged.
C10_ResolveOverwritesWaterTemperature ==
    [][op'.name \in {"fetchWeatherData", "fetchWeatherData.response",
                     "handleGeolocate.success", "fetchWeatherByCoords.response"} =>
           /\ formData'.timeOfDay = formData.timeOfDay
           /\ formData'.moonPhase = formData.moonPhase
           /\ op'.path # "success" => formData' = formData
           /\ op'.path = "success" =>
                  LET w == formData'.waterTemperature
                      t == weatherData'[1].main.temp
                  IN  /\ w.type = "number"
                      /\ w.num % 10 = 0
                      /\ w.num - 5 <= t
                      /\ t < w.num + 5
                      /\ formData'.location =
                             IF op'.name = "fetchWeatherByCoords.response"
                             THEN weatherData'[1].name
                             ELSE formData.location]_vars

\* A by-name response of 17.6 degrees has replaced the water temperature
\* by 18, with the moon phase the user chose still in place.
C10_Witness ==
    /\ op.name = "fetchWeatherData.response"
    /\ op.path = "success"
    /\ weatherData # None
    /\ weatherData[1].main.temp = 176
    /\ formData.waterTemperature = JSNumber(180)
    /\ formData.moonPhase = "new"

\* C11: with the other inputs held constant, the running total before
\* clamping is the total of the other four adjustments plus exactly 20 when
\* the water temperature is in [18,24], both ends included, and plus 0 when
\* it is outside.
C11_TemperatureBand ==
    (op.name = "predictFishBite" /\ weatherData # None) =>
        LET t      == ToNumber(formData.waterTemperature)
            inBand == ~t.nan /\ 180 <= t.v /\ t.v <= 240
            others == BaseScore
                          + TimeAdjustment(formData.timeOfDay)
                          + WeatherAdjustment(weatherData[1].weather)
                          + WindAdjustment(weatherData[1].wind)
                          + MoonAdjustment(formData.moonPhase)
        IN  RunningTotal(formData, weatherData[1])
                = others + (IF inBand THEN 20 ELSE 0)

\* predictFishBite has scored a water temperature of exactly 24, typed into
\* the number input, with every other adjustment at 0: the score is 70.
C11_Witness ==
    /\ op.name = "predictFishBite"
    /\ weatherData # None
    /\ formData.waterTemperature = JSString(<<"2", "4">>)
    /\ RunningTotal(formData, weatherData[1]) = 70
    /\ prediction = Some(70)

\* C12: the prediction predictFishBite stores is the one a freshly mounted
\* component with the same formData and weatherData would store, whatever
\* error, loading, geoLoading and the earlier prediction are; and a
\* predictFishBite step that directly follows a predictFishBite step changes
\* nothing of the component state or the view.
C12_DeterministicIdempotent ==
    [][op'.name = "predictFishBite" =>
           /\ weatherData # None =>
                  prediction' =
                      predictFishBite([InitialState EXCEPT
                                          !.formData = formData,
                                          !.weatherData = weatherData]).prediction
           /\ op.name = "predictFishBite" =>
                  UNCHANGED <<formData, weatherData, prediction, loading, error,
                              geoLoading, nameReqs, coordReqs, geoReqs, view>>]_vars

\* predictFishBite has scored in a state that differs from a fresh one in
\* everything the score must not depend on: an error message is shown, a
\* request is loading and a geolocation is under way.
C12_Witness ==
    /\ op.name = "predictFishBite"
    /\ op.path = "scored"
    /\ prediction # None
    /\ loading
    /\ geoLoading
    /\ nameReqs = 1
    /\ geoReqs = 1

\* C13: the wind contributes +10 to the running total below 5 m/s, -10
\* above 10 m/s and 0 from 5 to 10 m/s, exactly 5 and exactly 10 included.
C13_WindStrictBands ==
    (op.name = "predictFishBite" /\ weatherData # None) =>
        LET speed  == weatherData[1].wind.speed
            others == BaseScore
                          + TemperatureAdjustment(formData.waterTemperature)
                          + TimeAdjustment(formData.timeOfDay)
                          + WeatherAdjustment(weatherData[1].weather)
                          + MoonAdjustment(formData.moonPhase)
            wind   == RunningTotal(formData, weatherData[1]) - others
        IN  /\ speed < 50 => wind = 10
            /\ speed > 100 => wind = 0 - 10
            /\ (50 <= speed /\ speed <= 100) => wind = 0

\* predictFishBite has scored a wind of exactly 5 m/s with every other
\* adjustment at 0: the score is the base score.
C13_Witness ==
    /\ op.name = "predictFishBite"
    /\ weatherData # None
    /\ weatherData[1].wind.speed = 50
    /\ weatherData[1].weather[1].main = <<"M", "i", "s", "t">>
    /\ formData.waterTemperature = JSNumber(Tenths(10))
    /\ formData.timeOfDay = TimeString(13, 0)
    /\ formData.moonPhase = "half"
    /\ prediction = Some(50)

\* C14: the weather contributes by the first match, in this order and
\* whatever the case of the letters, on the primary condition category: +10
\* when it contains "clear", also when it contains "clouds" or "rain" as
\* well; otherwise +5 when it contains "clouds", also when it contains
\* "rain" as well; otherwise -10 when it contains "rain"; otherwise 0.  The
\* contribution is always one of these four values.
C14_WeatherFirstMatch ==
    (op.name = "predictFishBite" /\ weatherData # None) =>
        LET category  == toLowerCase(weatherData[1].weather[1].main)
            hasClear  == includes(category, <<"c", "l", "e", "a", "r">>)
            hasClouds == includes(category, <<"c", "l", "o", "u", "d", "s">>)
            hasRain   == includes(category, <<"r", "a", "i", "n">>)
            others    == BaseScore
                             + TemperatureAdjustment(formData.waterTemperature)
                             + TimeAdjustment(formData.timeOfDay)
                             + WindAdjustment(weatherData[1].wind)
                             + MoonAdjustment(formData.moonPhase)
            weather   == RunningTotal(formData, weatherData[1]) - others
        IN  /\ hasClear => weather = 10
            /\ (~hasClear /\ hasClouds) => weather = 5
            /\ (~hasClear /\ ~hasClouds /\ hasRain) => weather = 0 - 10
            /\ (~hasClear /\ ~hasClouds /\ ~hasRain) => weather = 0
            /\ weather \in {10, 5, 0 - 10, 0}

\* predictFishBite has scored "Rain CLEAR", which matches the first and the
\* third case, as clear: 50 + 10 with every other adjustment at 0.
C14_Witness ==
    /\ op.name = "predictFishBite"
    /\ weatherData # None
    /\ weatherData[1].weather[1].main = <<"R", "a", "i", "n", " ", "C", "L", "E", "A", "R">>
    /\ weatherData[1].wind.speed = 70
    /\ formData.waterTemperature = JSNumber(Tenths(10))
    /\ formData.timeOfDay = TimeString(13, 0)
    /\ formData.moonPhase = "half"
    /\ prediction = Some(60)

\* C15: for a time of day hh:mm the time contributes +15 to the running
\* total when hh is in [6,10] or in [16,19], ends included, and 0 otherwise;
\* it never contributes more than 15, and the same hour with any other
\* minute contributes the same.
C15_TimeOfDayByHour ==
    (op.name = "predictFishBite" /\ weatherData # None) =>
        LET s      == formData.timeOfDay
            others == BaseScore
                          + TemperatureAdjustment(formData.waterTemperature)
                          + WeatherAdjustment(weatherData[1].weather)
                          + WindAdjustment(weatherData[1].wind)
                          + MoonAdjustment(formData.moonPhase)
            time   == RunningTotal(formData, weatherData[1]) - others
        IN  /\ time <= 15
            /\ Len(s) = 5 =>
                   LET hh == DigitVal(s[1]) * 10 + DigitVal(s[2])
                   IN  /\ hh \in 0..23
                       /\ hh \in (6..10) \cup (16..19) => time = 15
                       /\ hh \notin (6..10) \cup (16..19) => time = 0
                       /\ \A mm \in {0, 1, 30, 59} :
                              RunningTotal([formData EXCEPT
                                               !.timeOfDay = TimeString(hh, mm)],
                                           weatherData[1])
                                  = RunningTotal(formData, weatherData[1])

\* predictFishBite has scored 10:59, the last minute of the morning range,
\* with every other adjustment at 0: 50 + 15.
C15_Witness ==
    /\ op.name = "predictFishBite"
    /\ weatherData # None
    /\ formData.timeOfDay = <<"1", "0", ":", "5", "9">>
    /\ weatherData[1].weather[1].main = <<"M", "i", "s", "t">>
    /\ weatherData[1].wind.speed = 70
    /\ formData.waterTemperature = JSNumber(Tenths(10))
    /\ formData.moonPhase = "half"
    /\ prediction = Some(65)

\* C16: provided every issued weather request and geolocation request is
\* answered, loading, once true, becomes false again, and geoLoading, once
\* true, becomes false again, whatever errors occurred before.
C16_BusyStatesEnd ==
    /\ loading ~> ~loading
    /\ geoLoading ~> ~geoLoading

\* After a failed fetch has withdrawn the observation of an earlier
\* prediction, a new by-name fetch has been accepted and is loading.
C16_Witness ==
    /\ op.name = "fetchWeatherData"
    /\ op.path = "request"
    /\ loading
    /\ weatherData = None
    /\ prediction # None
    /\ error = None

\* C17: whenever a weather request, by name or by coordinates, is
\* outstanding, loading is true; and at most one by-name request is
\* outstanding at any time.
C17_LoadingCoversRequests ==
    /\ nameReqs + coordReqs > 0 => loading
    /\ nameReqs <= 1

\* C18 as stated: whenever prediction is non-null, weatherData is non-null.
C18_PredictionImpliesObservation ==
    prediction # None => weatherData # None

\* C18 as amended: a prediction is only ever produced from an observation:
\* every step that changes prediction is a predictFishBite step taken while
\* weatherData is non-null, it stores a non-null prediction and leaves
\* weatherData in place.  The prediction stays exposed when a later failed
\* fetch sets weatherData to null.
C18_PredictionProducedFromObservation ==
    [][prediction' # prediction =>
           /\ op'.name = "predictFishBite"
           /\ weatherData # None
           /\ weatherData' = weatherData
           /\ prediction' # None]_vars

\* predictFishBite has produced a prediction from the observation in place,
\* with no request in flight.
C18_Witness ==
    /\ op.name = "predictFishBite"
    /\ op.path = "scored"
    /\ prediction # None
    /\ weatherData # None
    /\ Outstanding = 0

\* C19: handleInputChange, fetchWeatherData, fetchWeatherByCoords (start,
\* success and failure), handleGeolocate and its callbacks, and
\* predictFishBite without an observation, leave prediction unchanged; and
\* a prediction that is non-null never becomes null.
C19_PredictionOnDemand ==
    [][/\ op'.name \in {"handleInputChange", "fetchWeatherData",
                        "fetchWeatherData.response", "handleGeolocate",
                        "handleGeolocate.success", "handleGeolocate.error",
                        "fetchWeatherByCoords.response"} =>
              prediction' = prediction
       /\ (op'.name = "predictFishBite" /\ weatherData = None) =>
              prediction' = prediction
       /\ prediction # None => prediction' # None]_vars

\* A by-coordinates request has failed and withdrawn the observation; the
\* prediction made from it is still there.
C19_Witness ==
    /\ op.name = "fetchWeatherByCoords.response"
    /\ op.path = "catch"
    /\ weatherData = None
    /\ prediction # None

====
